---- MODULE Spec2Model ----
(***************************************************************************)
(* Request/response correlation of rclrs: Client<T> (node/client.rs) and   *)
(* Service<T> (node/service.rs).                                           *)
(*                                                                         *)
(* Client<T> and Service<T> keep their callbacks in boxes without a Send    *)
(* bound, so neither is Send nor Sync: the operations of one endpoint run  *)
(* on the one thread that owns it, one after the other.  What the rest of  *)
(* the program can hold at the same time is what the endpoint hands out:   *)
(* the guard of ClientHandle::lock / ServiceHandle::lock and the mutex of  *)
(* a future returned by call_async.  A step starts where the code may      *)
(* block on a lock, or where it has just released one, and runs to the     *)
(* next such place.  A MutexGuard bound by `let x = &mut *m.lock();` lives *)
(* to the end of the enclosing block, so the lock stays held until the     *)
(* step that leaves it.  SharedSpec is the client reached by two threads   *)
(* through a wrapper that asserts Sync, for the claims about interleaved   *)
(* calls; there execute is taken statement by statement.                   *)
(***************************************************************************)
EXTENDS Integers, Sequences, FiniteSets, TLC

(* ------------------------------ bounds --------------------------------- *)

\* total number of submissions (callback- or future-style) made on the client
MaxSubmissions == 2

\* total number of responses the transport buffers for the client
MaxResponses == 2

\* total number of requests the transport buffers for the service
MaxRequests == 2

\* number of owners (Arc clones) an endpoint handle can have at a time
MaxOwners == 3

\* Client<T> (client.rs:50) and Service<T> (service.rs:49) hold
\* Box<dyn FnMut(..) + 'static>, which is not Send: an endpoint cannot be
\* moved to nor shared with another thread, its operations run on one thread
Threads == {"t1"}
NoThread == "none"

\* the threads of a process that shares its client: every field of Client<T>
\* sits behind a Mutex or is atomic and every operation takes &self, but
\* Client<T> is not Sync, so the sharing goes through a wrapper that asserts
\* Sync for it.  t2 is the thread the client is shared with (SharedSpec only)
SharedThreads == {"t1", "t2"}

\* the application code of that thread, between two operations of the
\* endpoint: it holds the guards it took and did not drop
App == "app"

Ids == 1..MaxSubmissions
NoId == 0

\* keys of the pending tables: 0 is the initial value of Client::sequence_number,
\* 1.. are the numbers the transport assigns
SeqNums == 0..MaxSubmissions

\* sequence numbers a response can carry: the transport numbers the requests
\* of every client from 1
RespSeqNums == 1..MaxSubmissions

\* payload (AddTwoInts_Response.sum) of the n-th response the transport
\* buffers.  The client never inspects a payload, it only moves it, so
\* pairwise distinct payloads show every way of mixing responses up.
Payload(n) == 41 + n

(* --------------------------- return codes ------------------------------ *)

RclOk == "RCL_RET_OK"
RclError == "RCL_RET_ERROR"
ClientTakeFailed == "RCL_RET_CLIENT_TAKE_FAILED"
ServiceTakeFailed == "RCL_RET_SERVICE_TAKE_FAILED"

SendRcs == {RclOk, RclError}
ClientTakeRcs == {RclOk, ClientTakeFailed, RclError}
ServiceTakeRcs == {RclOk, ServiceTakeFailed, RclError}

\* Result<_, RclReturnCode> as seen by the caller: Ok, or Err(code)
ResOk == "Ok"
Err(rc) == <<"Err", rc>>

\* no execute or take_response has returned since the last call
NoRet == [op |-> "-", rc |-> "-", result |-> "-"]

VARIABLES
  \* ---- Client<T> ----
  pc,               \* position of each thread in the client operation it runs
  loc,              \* locals of that operation
  ret,              \* what the caller has in hand from the execute, or
                    \* the take_response called on its own, that returned
                    \* last, until it calls again: the transport's return
                    \* code in the call and the call's result
  handle_lock,      \* holder of ClientHandle::handle
  requests_lock,    \* holder of Client::requests
  futures_lock,     \* holder of Client::futures
  future_lock,      \* per future: holder of the future's own mutex
  requests,         \* Client::requests: sequence number -> callback
  futures,          \* Client::futures: sequence number -> future
  sequence_number,  \* Client::sequence_number
  \* ---- transport (rcl) side of the client endpoint ----
  rmw_seq,          \* last sequence number the transport assigned
  resp,             \* every response the transport buffered, with its fate
  \* ---- the application's view ----
  next_id,          \* next submission
  sub,              \* per submission: style, send result, sequence number
  cb_calls,         \* per callback: the responses it was invoked with
  fut_vals,         \* per future: the values set_value was called with
  \* ---- Service<T> ----
  spc,              \* position of each thread in Service::execute
  sloc,             \* locals of Service::execute: req, req_id, res
  slog,             \* what the thread's current or last execute call did
  sret,             \* result of the call on the service that returned last
  service_lock,     \* holder of ServiceHandle::handle
  callback_lock,    \* holder of Service::callback
  callback,         \* Service::callback: the registered handler
  reqs,             \* every request the transport buffered, with its fate
  \* ---- ClientHandle / ServiceHandle and the node they hang on ----
  hpc,              \* per endpoint handle: not built, live, in Drop::drop,
                    \* dropping its fields, gone
  owners,           \* per endpoint handle: strong count of its Arc
  fini,             \* per endpoint: calls of rcl_client_fini / rcl_service_fini
  node_owned,       \* the application still holds its Node
  node_refs,        \* strong count of the node's Arc<NodeHandle>
  node_lock,        \* holder of the NodeHandle mutex
  node_fini         \* calls of rcl_node_fini

cvars == <<pc, loc, ret, handle_lock, requests_lock, futures_lock, future_lock,
           requests, futures, sequence_number, rmw_seq, resp, next_id, sub,
           cb_calls, fut_vals>>

svars == <<spc, sloc, slog, sret, service_lock, callback_lock, callback, reqs>>

hvars == <<hpc, owners, fini, node_owned, node_refs, node_lock, node_fini>>

vars == <<cvars, svars, hvars>>

(* ------------------------- transport (rcl) ----------------------------- *)

\* a send whose caller keeps the number it loaded before the call
rcl_send_request_provisional(rc, sequence_number_in, assigned) ==
  sequence_number_in

\* rcl_send_request writes the assigned sequence number into its out-parameter
\* when it succeeds; when it fails the out-parameter keeps the value the
\* caller loaded into it.
rcl_send_request(rc, sequence_number_in, assigned) ==
  IF rc = RclOk THEN assigned ELSE sequence_number_in

NoResp == 0

Buffered(n) == n \in 1..Len(resp) /\ resp[n].st = "buffered"

(* --------------------------- Client<T> --------------------------------- *)

NoLoc == [id |-> NoId, seq |-> 0, rc |-> RclOk, res |-> NoResp, cb |-> NoId,
          fut |-> NoId, found |-> "-"]

\* a submission: its style, the transport's return code, the sequence number
\* the transport assigned to the request (0: none), the key its entry is
\* stored under, whether the entry has been inserted, whether the call has
\* returned and with what result
NoSub == [kind |-> "none", rc |-> "-", assigned |-> 0, seq |-> 0,
          inserted |-> FALSE, returned |-> FALSE, result |-> "-"]

\* HashMap::insert(key, value): replaces what the key held
Insert(map, key, value) == [map EXCEPT ![key] = value]

\* HashMap::contains_key
ContainsKey(map, key) == map[key] # NoId

\* HashMap::remove(key)
Remove(map, key) == [map EXCEPT ![key] = NoId]

\* a conversion that reports success whatever the return code
ToResultIgnoresCode(rc) == ResOk

\* ToResult::ok of a return code
ToResult(rc) == IF rc = RclOk THEN ResOk ELSE Err(rc)

\* an endpoint guard that lives for the rcl_send_request call only
HandleGuardDroppedAfterSend(t) == NoThread

\* client.rs:116 / client.rs:151: holder of the endpoint lock once
\* rcl_send_request has returned: the guard taken at the top of the submission
\* lives to the end of the function
HandleGuardAfterSend(t) == t

\* client.rs:116-124 / client.rs:151-159: lock the endpoint, load the counter,
\* rcl_send_request
SubmitSend(t, kind, rc, to) ==
  /\ pc[t] = "idle"
  /\ next_id <= MaxSubmissions
  /\ handle_lock = NoThread
  /\ LET assigned == rmw_seq + 1
         seq == rcl_send_request(rc, sequence_number, assigned)
     IN /\ loc' = [loc EXCEPT ![t] = [NoLoc EXCEPT !.id = next_id, !.seq = seq,
                                                   !.rc = rc]]
        /\ rmw_seq' = IF rc = RclOk THEN assigned ELSE rmw_seq
        /\ sub' = [sub EXCEPT ![next_id] =
                     [NoSub EXCEPT !.kind = kind, !.rc = rc, !.seq = seq,
                                   !.assigned = IF rc = RclOk THEN assigned
                                                ELSE 0]]
  /\ handle_lock' = HandleGuardAfterSend(t)
  /\ next_id' = next_id + 1
  /\ pc' = [pc EXCEPT ![t] = to]
  /\ ret' = NoRet
  /\ UNCHANGED <<requests_lock, futures_lock, future_lock, requests,
                 futures, sequence_number, resp, cb_calls, fut_vals>>

async_send_request_with_callback_send(t) ==
  \E rc \in SendRcs : SubmitSend(t, "cb", rc, "cb_insert")

\* client.rs:125-129: lock the callback table, insert, store the counter,
\* ret.ok(); the table guard and then the endpoint guard are dropped
async_send_request_with_callback_insert(t) ==
  /\ pc[t] = "cb_insert"
  /\ requests_lock = NoThread
  /\ requests' = Insert(requests, loc[t].seq, loc[t].id)
  /\ sequence_number' = loc[t].seq
  /\ sub' = [sub EXCEPT ![loc[t].id].inserted = TRUE,
                        ![loc[t].id].returned = TRUE,
                        ![loc[t].id].result = ToResult(loc[t].rc)]
  /\ handle_lock' = IF handle_lock = t THEN NoThread ELSE handle_lock
  /\ loc' = [loc EXCEPT ![t] = NoLoc]
  /\ pc' = [pc EXCEPT ![t] = "idle"]
  /\ UNCHANGED <<ret, requests_lock, futures_lock, future_lock, futures,
                 rmw_seq, resp, next_id, cb_calls, fut_vals>>

call_async_send(t) ==
  \E rc \in SendRcs : SubmitSend(t, "fut", rc, "fa_insert")

\* client.rs:160-164: new future; in a block of its own, lock the future
\* table and insert; the table guard is dropped where the block ends
call_async_insert(t) ==
  /\ pc[t] = "fa_insert"
  /\ futures_lock = NoThread
  /\ futures' = Insert(futures, loc[t].seq, loc[t].id)
  /\ sub' = [sub EXCEPT ![loc[t].id].inserted = TRUE]
  /\ pc' = [pc EXCEPT ![t] = "fa_swap"]
  /\ UNCHANGED <<loc, ret, handle_lock, requests_lock, futures_lock,
                 future_lock, requests, sequence_number, rmw_seq, resp,
                 next_id, cb_calls, fut_vals>>

\* client.rs:165: store the counter
call_async_swap(t) ==
  /\ pc[t] = "fa_swap"
  /\ sequence_number' = loc[t].seq
  /\ pc' = [pc EXCEPT ![t] = "fa_return"]
  /\ UNCHANGED <<loc, ret, handle_lock, requests_lock, futures_lock,
                 future_lock, requests, futures, rmw_seq, resp, next_id, sub,
                 cb_calls, fut_vals>>

\* client.rs:166-168: ret.ok()?; Ok(response); the endpoint guard is dropped
call_async_return(t) ==
  /\ pc[t] = "fa_return"
  /\ sub' = [sub EXCEPT ![loc[t].id].returned = TRUE,
                        ![loc[t].id].result = ToResult(loc[t].rc)]
  /\ handle_lock' = IF handle_lock = t THEN NoThread ELSE handle_lock
  /\ loc' = [loc EXCEPT ![t] = NoLoc]
  /\ pc' = [pc EXCEPT ![t] = "idle"]
  /\ UNCHANGED <<ret, requests_lock, futures_lock, future_lock, requests,
                 futures, sequence_number, rmw_seq, resp, next_id, cb_calls,
                 fut_vals>>

\* client.rs:143-168: the caller of a call_async that returned Ok(future)
\* holds the future, a clone of which is in the table
HasFuture(i) == sub[i].kind = "fut" /\ sub[i].returned /\ sub[i].rc = RclOk

\* no operation of the client is running: the application code runs
Idle == \A t \in Threads : pc[t] = "idle"

\* the application locks a future it was given (the Mutex of
\* Arc<Mutex<Box<RclFuture<T::Response>>>>, client.rs:51 and 146) and keeps
\* the guard
future_guard_take(i) ==
  /\ Idle
  /\ HasFuture(i)
  /\ future_lock[i] = NoThread
  /\ future_lock' = [future_lock EXCEPT ![i] = App]
  /\ UNCHANGED <<pc, loc, ret, handle_lock, requests_lock, futures_lock,
                 requests, futures, sequence_number, rmw_seq, resp, next_id,
                 sub, cb_calls, fut_vals>>

\* the application drops the guard of the future
future_guard_drop(i) ==
  /\ Idle
  /\ future_lock[i] = App
  /\ future_lock' = [future_lock EXCEPT ![i] = NoThread]
  /\ UNCHANGED <<pc, loc, ret, handle_lock, requests_lock, futures_lock,
                 requests, futures, sequence_number, rmw_seq, resp, next_id,
                 sub, cb_calls, fut_vals>>

\* client.rs:22-24: ClientHandle::lock, called from outside the operations of
\* the client; the caller keeps the guard
handle_guard_take ==
  /\ Idle
  /\ handle_lock = NoThread
  /\ handle_lock' = App
  /\ UNCHANGED <<pc, loc, ret, requests_lock, futures_lock, future_lock,
                 requests, futures, sequence_number, rmw_seq, resp, next_id,
                 sub, cb_calls, fut_vals>>

\* the caller drops the guard of ClientHandle::lock
handle_guard_drop ==
  /\ Idle
  /\ handle_lock = App
  /\ handle_lock' = NoThread
  /\ UNCHANGED <<pc, loc, ret, requests_lock, futures_lock, future_lock,
                 requests, futures, sequence_number, rmw_seq, resp, next_id,
                 sub, cb_calls, fut_vals>>

\* the operations of the client that begin by locking the endpoint
ClientOps ==
  {"async_send_request_with_callback", "call_async", "execute",
   "take_response"}

\* where an operation waits for the endpoint lock: client.rs:116
\* (async_send_request_with_callback), 151 (call_async), 193 (take_response,
\* also when execute calls it at 215)
HandleWaitPc(op) ==
  CASE op = "async_send_request_with_callback" -> "cb_lock_handle"
    [] op = "call_async" -> "fa_lock_handle"
    [] op = "execute" -> "ex_lock_handle"
    [] op = "take_response" -> "tr_lock_handle"

\* client.rs:116, 151, 193: operation op is called while its caller holds the
\* guard of ClientHandle::lock().  self.handle.lock() waits for that guard,
\* which its own thread would drop only after the call: the call is made,
\* nothing is sent or taken, and the thread stays at the lock
call_with_handle_guard(t, op) ==
  /\ pc[t] = "idle"
  /\ handle_lock = App
  /\ op \in ClientOps
  /\ pc' = [pc EXCEPT ![t] = HandleWaitPc(op)]
  /\ ret' = NoRet
  /\ UNCHANGED <<loc, handle_lock, requests_lock, futures_lock, future_lock,
                 requests, futures, sequence_number, rmw_seq, resp, next_id,
                 sub, cb_calls, fut_vals>>

\* an execute that takes every failed take for a spurious wakeup
ExecuteOnTakeSwallowsAll(rc) ==
  IF rc = RclOk THEN "dispatch" ELSE ResOk

\* an execute without the arm for the spurious wakeup: every failed take is
\* an error
ExecuteOnTakeNoSpuriousArm(rc) ==
  IF rc = RclOk THEN "dispatch" ELSE Err(rc)

\* client.rs:215-223: what execute does with the outcome of take_response
ExecuteOnTake(rc) ==
  CASE rc = RclOk -> "dispatch"
    [] rc = ClientTakeFailed -> ResOk
    [] OTHER -> Err(rc)

\* client.rs:193-202 and 215-216: take_response locks the endpoint,
\* rcl_take_response hands over buffered response n, take_response returns
\* and drops the endpoint guard
take_response_ok(t, n) ==
  /\ pc[t] = "idle"
  /\ handle_lock = NoThread
  /\ Buffered(n)
  /\ ExecuteOnTake(RclOk) = "dispatch"
  /\ resp' = [resp EXCEPT ![n].st = "taken"]
  /\ loc' = [loc EXCEPT ![t] = [NoLoc EXCEPT !.res = n]]
  /\ handle_lock' = NoThread
  /\ pc' = [pc EXCEPT ![t] = "ex_lock_requests"]
  /\ ret' = NoRet
  /\ UNCHANGED <<requests_lock, futures_lock, future_lock, requests,
                 futures, sequence_number, rmw_seq, next_id, sub, cb_calls,
                 fut_vals>>

\* client.rs:193-201 and 217-222: take_response locks the endpoint,
\* rcl_take_response fails with rc, the guard is dropped; execute returns at once
take_response_err(t, rc) ==
  /\ pc[t] = "idle"
  /\ handle_lock = NoThread
  /\ rc # RclOk
  /\ ExecuteOnTake(rc) # "dispatch"
  /\ ret' = [op |-> "execute", rc |-> rc, result |-> ExecuteOnTake(rc)]
  /\ UNCHANGED <<pc, loc, handle_lock, requests_lock, futures_lock,
                 future_lock, requests, futures, sequence_number, rmw_seq,
                 resp, next_id, sub, cb_calls, fut_vals>>

\* client.rs:185-203: take_response called on its own, not from execute:
\* buffered response n goes to the caller, with its request id; no table is
\* looked at
take_response_alone_ok(t, n) ==
  /\ pc[t] = "idle"
  /\ handle_lock = NoThread
  /\ Buffered(n)
  /\ resp' = [resp EXCEPT ![n].st = "caller"]
  /\ ret' = [op |-> "take_response", rc |-> RclOk, result |-> ToResult(RclOk)]
  /\ UNCHANGED <<pc, loc, handle_lock, requests_lock, futures_lock,
                 future_lock, requests, futures, sequence_number, rmw_seq,
                 next_id, sub, cb_calls, fut_vals>>

\* client.rs:185-201: take_response called on its own, rcl_take_response
\* fails with rc: ret.ok()? hands every failure to the caller
take_response_alone_err(t, rc) ==
  /\ pc[t] = "idle"
  /\ handle_lock = NoThread
  /\ rc # RclOk
  /\ ret' = [op |-> "take_response", rc |-> rc, result |-> ToResult(rc)]
  /\ UNCHANGED <<pc, loc, handle_lock, requests_lock, futures_lock,
                 future_lock, requests, futures, sequence_number, rmw_seq,
                 resp, next_id, sub, cb_calls, fut_vals>>

\* client.rs:224
execute_lock_requests(t) ==
  /\ pc[t] = "ex_lock_requests"
  /\ requests_lock = NoThread
  /\ requests_lock' = t
  /\ pc' = [pc EXCEPT ![t] = "ex_lock_futures"]
  /\ UNCHANGED <<loc, ret, handle_lock, futures_lock, future_lock, requests,
                 futures, sequence_number, rmw_seq, resp, next_id, sub,
                 cb_calls, fut_vals>>

\* RclFuture::set_value
set_value(vals, v) == Append(vals, v)

\* a dispatch that hands an unmatched response to the oldest pending callback
DispatchOldestOnMiss(callbacks, futs, s) ==
  LET pending == {k \in DOMAIN callbacks : ContainsKey(callbacks, k)}
      key == IF ContainsKey(callbacks, s) \/ pending = {} THEN s
             ELSE CHOOSE k \in pending : \A j \in pending : k <= j
  IN IF ContainsKey(callbacks, key)
     THEN [found |-> "callback", id |-> callbacks[key],
           requests |-> Remove(callbacks, key), futures |-> futs]
     ELSE IF ContainsKey(futs, s)
     THEN [found |-> "future", id |-> futs[s],
           requests |-> callbacks, futures |-> Remove(futs, s)]
     ELSE [found |-> "dropped", id |-> NoId,
           requests |-> callbacks, futures |-> futs]

\* a dispatch that looks into the future table first
DispatchFutureFirst(callbacks, futs, s) ==
  IF ContainsKey(futs, s)
  THEN [found |-> "future", id |-> futs[s],
        requests |-> callbacks, futures |-> Remove(futs, s)]
  ELSE IF ContainsKey(callbacks, s)
  THEN [found |-> "callback", id |-> callbacks[s],
        requests |-> Remove(callbacks, s), futures |-> futs]
  ELSE [found |-> "dropped", id |-> NoId,
        requests |-> callbacks, futures |-> futs]

\* a dispatch that, having found a callback, clears the key in the future
\* table as well
DispatchClearsBoth(callbacks, futs, s) ==
  IF ContainsKey(callbacks, s)
  THEN [found |-> "callback", id |-> callbacks[s],
        requests |-> Remove(callbacks, s), futures |-> Remove(futs, s)]
  ELSE IF ContainsKey(futs, s)
  THEN [found |-> "future", id |-> futs[s],
        requests |-> callbacks, futures |-> Remove(futs, s)]
  ELSE [found |-> "dropped", id |-> NoId,
        requests |-> callbacks, futures |-> futs]

\* client.rs:226-232: look the sequence number up, callbacks first; what is
\* found is removed from its table
Dispatch(callbacks, futs, s) ==
  IF ContainsKey(callbacks, s)
  THEN [found |-> "callback", id |-> callbacks[s],
        requests |-> Remove(callbacks, s), futures |-> futs]
  ELSE IF ContainsKey(futs, s)
  THEN [found |-> "future", id |-> futs[s],
        requests |-> callbacks, futures |-> Remove(futs, s)]
  ELSE [found |-> "dropped", id |-> NoId,
        requests |-> callbacks, futures |-> futs]

\* client.rs:233-234: Ok(()); the table guards are dropped
ExecuteReturn(t, fate) ==
  /\ ret' = [op |-> "execute", rc |-> RclOk, result |-> ResOk]
  /\ resp' = [resp EXCEPT ![loc[t].res].st = fate]
  /\ futures_lock' = NoThread
  /\ requests_lock' = NoThread
  /\ loc' = [loc EXCEPT ![t] = NoLoc]
  /\ pc' = [pc EXCEPT ![t] = "idle"]

\* client.rs:225-227, 229-230 and 233-234: lock the future table and dispatch
\* on the response's sequence number.  A callback found is about to run under
\* both table guards; a future found is about to be locked under both table
\* guards; with neither, execute returns
execute_dispatch(t) ==
  /\ pc[t] = "ex_lock_futures"
  /\ futures_lock = NoThread
  /\ LET d == Dispatch(requests, futures, resp[loc[t].res].seq)
     IN /\ requests' = d.requests
        /\ futures' = d.futures
        /\ CASE d.found = "callback" ->
                  /\ loc' = [loc EXCEPT ![t].cb = d.id]
                  /\ futures_lock' = t
                  /\ pc' = [pc EXCEPT ![t] = "ex_callback"]
                  /\ UNCHANGED <<ret, resp, requests_lock>>
             [] d.found = "future" ->
                  /\ loc' = [loc EXCEPT ![t].fut = d.id]
                  /\ futures_lock' = t
                  /\ pc' = [pc EXCEPT ![t] = "ex_set_future"]
                  /\ UNCHANGED <<ret, resp, requests_lock>>
             [] OTHER -> ExecuteReturn(t, d.found)
  /\ UNCHANGED <<handle_lock, future_lock, sequence_number, rmw_seq, next_id,
                 sub, cb_calls, fut_vals>>

\* table guards that are dropped once the lookup is done, the removal taking
\* them again
TableGuardsDroppedAfterLookup(t) == NoThread

\* client.rs:224-225: holder of the two table locks once contains_key has
\* answered: the guards bound at the top of the dispatch live to the end of
\* the function
TableGuardsAfterLookup(t) == t

\* client.rs:225-226 and 229, the dispatch of execute_dispatch step by step,
\* for the runs in which another thread may come between two statements:
\* lock the future table; contains_key on requests, else on futures.  With
\* the key in neither table execute returns (233-234)
execute_lookup(t) ==
  /\ pc[t] = "ex_lock_futures"
  /\ futures_lock = NoThread
  /\ LET d == Dispatch(requests, futures, resp[loc[t].res].seq)
     IN CASE d.found = "dropped" ->
               /\ ExecuteReturn(t, "dropped")
          [] OTHER ->
               /\ loc' = [loc EXCEPT ![t].found = d.found]
               /\ requests_lock' = TableGuardsAfterLookup(t)
               /\ futures_lock' = TableGuardsAfterLookup(t)
               /\ pc' = [pc EXCEPT ![t] = "ex_remove"]
               /\ UNCHANGED <<ret, resp>>
  /\ UNCHANGED <<handle_lock, future_lock, requests, futures, sequence_number,
                 rmw_seq, next_id, sub, cb_calls, fut_vals>>

\* client.rs:227 and 230: remove(&seq).unwrap() on the table the key was
\* found in, under the guards of the lookup.  unwrap() of None panics
execute_remove(t) ==
  /\ pc[t] = "ex_remove"
  /\ requests_lock = TableGuardsAfterLookup(t)
  /\ futures_lock = TableGuardsAfterLookup(t)
  /\ LET s == resp[loc[t].res].seq
         table == IF loc[t].found = "callback" THEN requests ELSE futures
     IN IF ContainsKey(table, s)
        THEN /\ loc' = [loc EXCEPT ![t].cb = IF loc[t].found = "callback"
                                             THEN table[s] ELSE NoId,
                                   ![t].fut = IF loc[t].found = "future"
                                              THEN table[s] ELSE NoId]
             /\ requests' = IF loc[t].found = "callback"
                            THEN Remove(requests, s) ELSE requests
             /\ futures' = IF loc[t].found = "future"
                           THEN Remove(futures, s) ELSE futures
             /\ pc' = [pc EXCEPT ![t] = IF loc[t].found = "callback"
                                        THEN "ex_callback"
                                        ELSE "ex_set_future"]
        ELSE /\ pc' = [pc EXCEPT ![t] = "ex_unwrap_none"]
             /\ UNCHANGED <<loc, requests, futures>>
  /\ UNCHANGED <<ret, handle_lock, requests_lock, futures_lock, future_lock,
                 sequence_number, rmw_seq, resp, next_id, sub, cb_calls,
                 fut_vals>>

\* client.rs:231 and 233-234: lock the future, set_value, unlock; execute
\* returns
execute_set_future(t) ==
  /\ pc[t] = "ex_set_future"
  /\ future_lock[loc[t].fut] = NoThread
  /\ fut_vals' = [fut_vals EXCEPT ![loc[t].fut] =
                    set_value(@, resp[loc[t].res].val)]
  /\ ExecuteReturn(t, "future")
  /\ UNCHANGED <<handle_lock, future_lock, requests, futures, sequence_number,
                 rmw_seq, next_id, sub, cb_calls>>

\* client.rs:228 and 233-234: the callback runs with the response; execute
\* returns
execute_callback(t) ==
  /\ pc[t] = "ex_callback"
  /\ cb_calls' = [cb_calls EXCEPT ![loc[t].cb] = Append(@, loc[t].res)]
  /\ ExecuteReturn(t, "callback")
  /\ UNCHANGED <<handle_lock, future_lock, requests, futures, sequence_number,
                 rmw_seq, next_id, sub, fut_vals>>

\* the transport buffers a response tagged s; it answers a request of this
\* client when s is a sequence number the transport has assigned
rmw_deliver(s) ==
  /\ Len(resp) < MaxResponses
  /\ resp' = Append(resp, [seq |-> s, val |-> Payload(Len(resp) + 1),
                           answer |-> s \in 1..rmw_seq, st |-> "buffered"])
  /\ UNCHANGED <<pc, loc, ret, handle_lock, requests_lock, futures_lock,
                 future_lock, requests, futures, sequence_number, rmw_seq,
                 next_id, sub, cb_calls, fut_vals>>

\* Client::new, client.rs:87-92, in a process with the threads T
ClientInitOf(T) ==
  /\ pc = [t \in T |-> "idle"]
  /\ loc = [t \in T |-> NoLoc]
  /\ ret = NoRet
  /\ handle_lock = NoThread
  /\ requests_lock = NoThread
  /\ futures_lock = NoThread
  /\ future_lock = [i \in Ids |-> NoThread]
  /\ requests = [s \in SeqNums |-> NoId]
  /\ futures = [s \in SeqNums |-> NoId]
  /\ sequence_number = 0
  /\ rmw_seq = 0
  /\ resp = <<>>
  /\ next_id = 1
  /\ sub = [i \in Ids |-> NoSub]
  /\ cb_calls = [i \in Ids |-> <<>>]
  /\ fut_vals = [i \in Ids |-> <<>>]

ClientInit == ClientInitOf(Threads)

(* ------------------- ClientHandle / ServiceHandle ---------------------- *)

Endpoints == {"client", "service"}

\* Arc::drop of the node handle: the last reference gone starts the node's
\* own teardown
NodeRefDropped(refs) == refs - 1

\* client.rs:84 / service.rs:82: node.handle.clone(), the endpoint handle
\* co-owns the node handle
NodeHandleClone(refs) == refs + 1

\* an endpoint finalized without taking the node's lock
NodeGuardNotTaken(e) == NoThread

\* client.rs:30 / service.rs:28: holder of the node's lock once
\* `&mut *self.node_handle.lock()` has returned; the guard lives to the end of
\* Drop::drop
NodeGuardInDrop(e) == e

\* Client::new, client.rs:59-92 / Service::new, service.rs:56-89: the node is
\* locked, the endpoint is initialised and the handle is built with a clone of
\* the node handle; the node guard is dropped where the function returns
endpoint_new(e) ==
  /\ hpc[e] = "none"
  /\ node_owned
  /\ node_lock = NoThread
  /\ hpc' = [hpc EXCEPT ![e] = "live"]
  /\ owners' = [owners EXCEPT ![e] = 1]
  /\ node_refs' = NodeHandleClone(node_refs)
  /\ UNCHANGED <<fini, node_owned, node_lock, node_fini>>

\* client.rs:49 / service.rs:47: Arc<ClientHandle>, Arc<ServiceHandle>: one
\* more owner of the handle
handle_clone(e) ==
  /\ hpc[e] = "live"
  /\ owners[e] < MaxOwners
  /\ owners' = [owners EXCEPT ![e] = @ + 1]
  /\ UNCHANGED <<hpc, fini, node_owned, node_refs, node_lock, node_fini>>

\* an owner of the handle is dropped; the last one gone, Drop::drop of the
\* handle starts (client.rs:28-29 / service.rs:26-27)
handle_owner_drop(e) ==
  /\ hpc[e] = "live"
  /\ owners' = [owners EXCEPT ![e] = @ - 1]
  /\ hpc' = [hpc EXCEPT ![e] = IF owners'[e] = 0 THEN "drop" ELSE "live"]
  /\ UNCHANGED <<fini, node_owned, node_refs, node_lock, node_fini>>

\* client.rs:30 / service.rs:28: Drop::drop locks the node handle
handle_drop_lock_node(e) ==
  /\ hpc[e] = "drop"
  /\ node_lock = NoThread
  /\ node_lock' = NodeGuardInDrop(e)
  /\ hpc' = [hpc EXCEPT ![e] = "fini"]
  /\ UNCHANGED <<owners, fini, node_owned, node_refs, node_fini>>

\* client.rs:31-34 / service.rs:29-32: rcl_client_fini / rcl_service_fini; the
\* node guard is dropped where Drop::drop ends
handle_drop_fini(e) ==
  /\ hpc[e] = "fini"
  /\ fini' = [fini EXCEPT ![e] = @ + 1]
  /\ node_lock' = IF node_lock = e THEN NoThread ELSE node_lock
  /\ hpc' = [hpc EXCEPT ![e] = "fields"]
  /\ UNCHANGED <<owners, node_owned, node_refs, node_fini>>

\* client.rs:16-19 / service.rs:14-17: after Drop::drop the fields of the
\* handle are dropped, the node_handle reference among them
handle_drop_fields(e) ==
  /\ hpc[e] = "fields"
  /\ node_refs' = NodeRefDropped(node_refs)
  /\ hpc' = [hpc EXCEPT ![e] = "gone"]
  /\ UNCHANGED <<owners, fini, node_owned, node_lock, node_fini>>

\* the application drops its Node, and with it one reference to the node
\* handle
node_drop ==
  /\ node_owned
  /\ node_lock # App
  /\ node_owned' = FALSE
  /\ node_refs' = NodeRefDropped(node_refs)
  /\ UNCHANGED <<hpc, owners, fini, node_lock, node_fini>>

\* NodeHandle::drop: the last reference to the node handle is gone,
\* rcl_node_fini
node_handle_fini ==
  /\ node_refs = 0
  /\ node_fini = 0
  /\ node_fini' = 1
  /\ UNCHANGED <<hpc, owners, fini, node_owned, node_refs, node_lock>>

\* the application locks the node handle for a call on its Node
node_app_lock ==
  /\ node_owned
  /\ node_lock = NoThread
  /\ node_lock' = App
  /\ UNCHANGED <<hpc, owners, fini, node_owned, node_refs, node_fini>>

\* ... and unlocks it
node_app_unlock ==
  /\ node_lock = App
  /\ node_lock' = NoThread
  /\ UNCHANGED <<hpc, owners, fini, node_owned, node_refs, node_fini>>

\* a Node exists and the Client has been built on it (Client::new,
\* client.rs:59-92); no Service yet
HandleInit ==
  /\ hpc = [e \in Endpoints |-> IF e = "client" THEN "live" ELSE "none"]
  /\ owners = [e \in Endpoints |-> IF e = "client" THEN 1 ELSE 0]
  /\ fini = [e \in Endpoints |-> 0]
  /\ node_owned = TRUE
  /\ node_refs = NodeHandleClone(1)
  /\ node_lock = NoThread
  /\ node_fini = 0

(* --------------------------- Service<T> -------------------------------- *)

\* rmw_request_id_t: writer_guid is 16 bytes
GuidLen == 16

\* service.rs:107-110: request_id_out before rcl_take_request fills it
ZeroRequestId ==
  [writer_guid |-> [i \in 1..GuidLen |-> 0], sequence_number |-> 0]

\* the clients whose requests reach the service
Clients == {1, 2}

\* rmw_request_id_t::writer_guid of client c
Guid(c) == [i \in 1..GuidLen |-> c * i]

\* request id of the next request of client c, given the requests buffered so
\* far: each client numbers its own requests from 1
RequestId(c, earlier) ==
  [writer_guid |-> Guid(c),
   sequence_number |->
     1 + Cardinality({k \in 1..Len(earlier) :
                        earlier[k].id.writer_guid = Guid(c)})]

\* AddTwoInts_Request values
Requests == {[a |-> 41, b |-> 1], [a |-> 2, b |-> 3]}

\* T::Response::default()
DefaultResponse == [sum |-> 0]

\* the handlers an application registers: one writes the sum into the
\* response, one leaves the response as it was given
Handlers == {"add_two_ints", "leave"}

Handler(h, req_id, req, res) ==
  IF h = "add_two_ints" THEN [res EXCEPT !.sum = req.a + req.b] ELSE res

NoHandler == "none"

NoReq == 0

\* Service::new, service.rs:56-89: under the node's lock the endpoint is
\* initialised and its handle built; the handler is registered
service_new(h) ==
  /\ callback = NoHandler
  /\ endpoint_new("service")
  /\ callback' = h
  /\ UNCHANGED <<spc, sloc, slog, sret, service_lock, callback_lock, reqs>>

\* service.rs:20-22: ServiceHandle::lock, called from outside the operations
\* of the service; the caller keeps the guard
service_guard_take ==
  /\ callback # NoHandler
  /\ \A t \in Threads : spc[t] = "idle"
  /\ service_lock = NoThread
  /\ service_lock' = App
  /\ UNCHANGED <<spc, sloc, slog, sret, callback_lock, callback, reqs>>

\* the caller drops the guard of ServiceHandle::lock
service_guard_drop ==
  /\ \A t \in Threads : spc[t] = "idle"
  /\ service_lock = App
  /\ service_lock' = NoThread
  /\ UNCHANGED <<spc, sloc, slog, sret, callback_lock, callback, reqs>>

\* the operations of the service that begin by locking the endpoint
ServiceOps == {"execute", "take_request"}

\* service.rs:114 (take_request, also when execute calls it at 136):
\* operation op is called while its caller holds the guard of
\* ServiceHandle::lock().  self.handle.lock() waits for that guard, which its
\* own thread would drop only after the call: nothing is taken and the
\* thread stays at the lock
service_call_with_handle_guard(t, op) ==
  /\ callback # NoHandler
  /\ spc[t] = "idle"
  /\ service_lock = App
  /\ op \in ServiceOps
  /\ spc' = [spc EXCEPT ![t] = IF op = "execute" THEN "sv_lock_handle"
                                                 ELSE "tq_lock_handle"]
  /\ slog' = [slog EXCEPT ![t] = IF op = "execute" THEN <<>> ELSE slog[t]]
  /\ UNCHANGED <<sloc, sret, service_lock, callback_lock, callback, reqs>>

NoSloc == [n |-> NoReq, req_id |-> ZeroRequestId, res |-> DefaultResponse]

\* service.rs:136-144: what execute does with the outcome of take_request
ServiceExecuteOnTake(rc) ==
  CASE rc = RclOk -> "handle"
    [] rc = ServiceTakeFailed -> ResOk
    [] OTHER -> Err(rc)

\* service.rs:106-124 and 136-137: take_request locks the endpoint,
\* rcl_take_request hands over buffered request n with its request id, the
\* guard is dropped
take_request_ok(t, n) ==
  /\ callback # NoHandler
  /\ spc[t] = "idle"
  /\ service_lock = NoThread
  /\ n \in 1..Len(reqs) /\ reqs[n].st = "buffered"
  /\ ServiceExecuteOnTake(RclOk) = "handle"
  /\ reqs' = [reqs EXCEPT ![n].st = "taken"]
  /\ sloc' = [sloc EXCEPT ![t] = [NoSloc EXCEPT !.n = n, !.req_id = reqs[n].id]]
  /\ slog' = [slog EXCEPT ![t] = <<[ev |-> "take", n |-> n, id |-> reqs[n].id]>>]
  /\ spc' = [spc EXCEPT ![t] = "sv_call"]
  /\ UNCHANGED <<sret, service_lock, callback_lock, callback>>

\* service.rs:106-122 and 138-143: rcl_take_request fails with rc; execute
\* returns at once
take_request_err(t, rc) ==
  /\ callback # NoHandler
  /\ spc[t] = "idle"
  /\ service_lock = NoThread
  /\ rc # RclOk
  /\ ServiceExecuteOnTake(rc) # "handle"
  /\ sret' = ServiceExecuteOnTake(rc)
  /\ slog' = [slog EXCEPT ![t] = <<[ev |-> "take_err", rc |-> rc],
                                   [ev |-> "return", result |-> sret']>>]
  /\ sloc' = [sloc EXCEPT ![t] = NoSloc]
  /\ UNCHANGED <<spc, service_lock, callback_lock, callback, reqs>>

\* service.rs:106-124: take_request called on its own, not from execute:
\* buffered request n goes to the caller with its request id; no handler runs
\* and nothing is sent
take_request_alone_ok(t, n) ==
  /\ callback # NoHandler
  /\ spc[t] = "idle"
  /\ service_lock = NoThread
  /\ n \in 1..Len(reqs) /\ reqs[n].st = "buffered"
  /\ reqs' = [reqs EXCEPT ![n].st = "caller"]
  /\ sret' = ToResult(RclOk)
  /\ UNCHANGED <<spc, sloc, slog, service_lock, callback_lock, callback>>

\* service.rs:106-122: take_request called on its own, rcl_take_request fails
\* with rc: ret.ok()? hands every failure to the caller
take_request_alone_err(t, rc) ==
  /\ callback # NoHandler
  /\ spc[t] = "idle"
  /\ service_lock = NoThread
  /\ rc # RclOk
  /\ sret' = ToResult(rc)
  /\ UNCHANGED <<spc, sloc, slog, service_lock, callback_lock, callback, reqs>>

\* service.rs:145-146: default response; lock the handler and call it
service_execute_call(t) ==
  /\ spc[t] = "sv_call"
  /\ callback_lock = NoThread
  /\ callback_lock' = t
  /\ sloc' = [sloc EXCEPT ![t].res = DefaultResponse]
  /\ slog' = [slog EXCEPT ![t] = Append(@, [ev |-> "handler",
                                           id |-> sloc[t].req_id])]
  /\ reqs' = [reqs EXCEPT ![sloc[t].n].handled = @ + 1]
  /\ spc' = [spc EXCEPT ![t] = "sv_handler"]
  /\ UNCHANGED <<sret, service_lock, callback>>

\* service.rs:146: the handler fills the response and returns; its guard is
\* dropped
service_execute_handler(t) ==
  /\ spc[t] = "sv_handler"
  /\ sloc' = [sloc EXCEPT ![t].res =
                Handler(callback, sloc[t].req_id, reqs[sloc[t].n].req, @)]
  /\ callback_lock' = NoThread
  /\ spc' = [spc EXCEPT ![t] = "sv_send"]
  /\ UNCHANGED <<slog, sret, service_lock, callback, reqs>>

\* a send that passes a freshly zeroed request id
SendZeroRequestId(t) == ZeroRequestId

\* service.rs:152: the request id handed to rcl_send_response
SendRequestId(t) == sloc[t].req_id

\* a send that passes a fresh default response instead of the handler's
SendDefaultResponse(t) == DefaultResponse

\* service.rs:147: the response handed to rcl_send_response
SendResponse(t) == sloc[t].res

\* service.rs:147-157: lock the endpoint, rcl_send_response, ret.ok(); the
\* guard is dropped
service_execute_send(t, rc) ==
  /\ spc[t] = "sv_send"
  /\ service_lock = NoThread
  /\ sret' = ToResult(rc)
  /\ slog' = [slog EXCEPT ![t] =
                @ \o <<[ev |-> "send", id |-> SendRequestId(t),
                        res |-> SendResponse(t), rc |-> rc],
                       [ev |-> "return", result |-> sret']>>]
  /\ reqs' = [reqs EXCEPT ![sloc[t].n].sends = @ + 1,
                          ![sloc[t].n].st = "done"]
  /\ sloc' = [sloc EXCEPT ![t] = NoSloc]
  /\ spc' = [spc EXCEPT ![t] = "idle"]
  /\ UNCHANGED <<service_lock, callback_lock, callback>>

\* the transport buffers a request for the service
rmw_request(c, req) ==
  /\ Len(reqs) < MaxRequests
  /\ reqs' = Append(reqs, [id |-> RequestId(c, reqs), req |-> req,
                           st |-> "buffered", handled |-> 0, sends |-> 0])
  /\ UNCHANGED <<spc, sloc, slog, sret, service_lock, callback_lock, callback>>

\* no Service constructed yet
ServiceInit ==
  /\ spc = [t \in Threads |-> "idle"]
  /\ sloc = [t \in Threads |-> NoSloc]
  /\ slog = [t \in Threads |-> <<>>]
  /\ sret = "-"
  /\ service_lock = NoThread
  /\ callback_lock = NoThread
  /\ callback = NoHandler
  /\ reqs = <<>>

(* -------------------------- specifications ----------------------------- *)

Init == ClientInit /\ ServiceInit /\ HandleInit

\* the thread of the client and the transport.  The guards the application
\* can hold (future_guard_take, handle_guard_take) are left to LiveSpec: a
\* held guard only ever keeps a step from being taken, it changes no table,
\* no counter and no response, so every state of the tables reached with
\* them is reached without them
Next ==
  \/ \E t \in Threads :
       async_send_request_with_callback_send(t) /\ UNCHANGED <<svars, hvars>>
  \/ \E t \in Threads :
       async_send_request_with_callback_insert(t) /\ UNCHANGED <<svars, hvars>>
  \/ \E t \in Threads :
       call_async_send(t) /\ UNCHANGED <<svars, hvars>>
  \/ \E t \in Threads :
       call_async_insert(t) /\ UNCHANGED <<svars, hvars>>
  \/ \E t \in Threads :
       call_async_swap(t) /\ UNCHANGED <<svars, hvars>>
  \/ \E t \in Threads :
       call_async_return(t) /\ UNCHANGED <<svars, hvars>>
  \/ \E t \in Threads, n \in 1..MaxResponses :
       take_response_ok(t, n) /\ UNCHANGED <<svars, hvars>>
  \/ \E t \in Threads, rc \in ClientTakeRcs :
       take_response_err(t, rc) /\ UNCHANGED <<svars, hvars>>
  \/ \E t \in Threads, n \in 1..MaxResponses :
       take_response_alone_ok(t, n) /\ UNCHANGED <<svars, hvars>>
  \/ \E t \in Threads, rc \in ClientTakeRcs :
       take_response_alone_err(t, rc) /\ UNCHANGED <<svars, hvars>>
  \/ \E t \in Threads :
       execute_lock_requests(t) /\ UNCHANGED <<svars, hvars>>
  \/ \E t \in Threads :
       execute_dispatch(t) /\ UNCHANGED <<svars, hvars>>
  \/ \E t \in Threads :
       execute_set_future(t) /\ UNCHANGED <<svars, hvars>>
  \/ \E t \in Threads :
       execute_callback(t) /\ UNCHANGED <<svars, hvars>>
  \/ \E s \in RespSeqNums :
       rmw_deliver(s) /\ UNCHANGED <<svars, hvars>>

Spec == Init /\ [][Next]_vars

\* the thread of the service, the rest of the application and the transport
ServiceNext ==
  \/ \E h \in Handlers :
       service_new(h) /\ UNCHANGED <<cvars>>
  \/ service_guard_take /\ UNCHANGED <<cvars, hvars>>
  \/ service_guard_drop /\ UNCHANGED <<cvars, hvars>>
  \/ \E t \in Threads, op \in ServiceOps :
       service_call_with_handle_guard(t, op) /\ UNCHANGED <<cvars, hvars>>
  \/ \E t \in Threads, n \in 1..MaxRequests :
       take_request_ok(t, n) /\ UNCHANGED <<cvars, hvars>>
  \/ \E t \in Threads, rc \in ServiceTakeRcs :
       take_request_err(t, rc) /\ UNCHANGED <<cvars, hvars>>
  \/ \E t \in Threads, n \in 1..MaxRequests :
       take_request_alone_ok(t, n) /\ UNCHANGED <<cvars, hvars>>
  \/ \E t \in Threads, rc \in ServiceTakeRcs :
       take_request_alone_err(t, rc) /\ UNCHANGED <<cvars, hvars>>
  \/ \E t \in Threads :
       service_execute_call(t) /\ UNCHANGED <<cvars, hvars>>
  \/ \E t \in Threads :
       service_execute_handler(t) /\ UNCHANGED <<cvars, hvars>>
  \/ \E t \in Threads, rc \in SendRcs :
       service_execute_send(t, rc) /\ UNCHANGED <<cvars, hvars>>
  \/ \E c \in Clients, req \in Requests :
       rmw_request(c, req) /\ UNCHANGED <<cvars, hvars>>

ServiceSpec == Init /\ [][ServiceNext]_vars

\* a step of a thread that is inside a client operation: it only ever waits
\* for a lock.  A thread waiting for the endpoint lock its own caller holds
\* (call_with_handle_guard) has no step
ThreadStep(t) ==
  /\ \/ async_send_request_with_callback_insert(t)
     \/ call_async_insert(t)
     \/ call_async_swap(t)
     \/ call_async_return(t)
     \/ execute_lock_requests(t)
     \/ execute_dispatch(t)
     \/ execute_set_future(t)
     \/ execute_callback(t)
  /\ UNCHANGED <<svars, hvars>>

\* the poller calls execute() on the client and a response is taken
PollerStep ==
  /\ \E t \in Threads, n \in 1..MaxResponses : take_response_ok(t, n)
  /\ UNCHANGED <<svars, hvars>>

\* the client with the guards its application can hold, for the runs in
\* which every send and every take succeeds (a failed take changes nothing
\* but the result of its execute) and take_response is left to execute(),
\* but for the call that waits for the caller's own guard
LiveNext ==
  \/ \E t \in Threads :
       SubmitSend(t, "cb", RclOk, "cb_insert") /\ UNCHANGED <<svars, hvars>>
  \/ \E t \in Threads :
       async_send_request_with_callback_insert(t) /\ UNCHANGED <<svars, hvars>>
  \/ \E t \in Threads :
       SubmitSend(t, "fut", RclOk, "fa_insert") /\ UNCHANGED <<svars, hvars>>
  \/ \E t \in Threads : call_async_insert(t) /\ UNCHANGED <<svars, hvars>>
  \/ \E t \in Threads : call_async_swap(t) /\ UNCHANGED <<svars, hvars>>
  \/ \E t \in Threads : call_async_return(t) /\ UNCHANGED <<svars, hvars>>
  \/ \E i \in Ids : future_guard_take(i) /\ UNCHANGED <<svars, hvars>>
  \/ \E i \in Ids : future_guard_drop(i) /\ UNCHANGED <<svars, hvars>>
  \/ handle_guard_take /\ UNCHANGED <<svars, hvars>>
  \/ handle_guard_drop /\ UNCHANGED <<svars, hvars>>
  \/ \E t \in Threads, op \in ClientOps :
       call_with_handle_guard(t, op) /\ UNCHANGED <<svars, hvars>>
  \/ \E t \in Threads, n \in 1..MaxResponses :
       take_response_ok(t, n) /\ UNCHANGED <<svars, hvars>>
  \/ \E t \in Threads : execute_lock_requests(t) /\ UNCHANGED <<svars, hvars>>
  \/ \E t \in Threads : execute_dispatch(t) /\ UNCHANGED <<svars, hvars>>
  \/ \E t \in Threads : execute_set_future(t) /\ UNCHANGED <<svars, hvars>>
  \/ \E t \in Threads : execute_callback(t) /\ UNCHANGED <<svars, hvars>>
  \/ \E s \in RespSeqNums : rmw_deliver(s) /\ UNCHANGED <<svars, hvars>>

\* the application drops the guard of the endpoint
HandleGuardDropStep == handle_guard_drop /\ UNCHANGED <<svars, hvars>>

\* the application drops the guard of future i
FutureGuardDropStep(i) == future_guard_drop(i) /\ UNCHANGED <<svars, hvars>>

\* the client under a fair scheduler and a fair poller: a thread inside an
\* operation gets the lock it waits for if the lock is free again and again
\* (parking_lot hands a lock to its waiters), a guard is dropped again by an
\* application that is not inside an operation of the client (inside one,
\* waiting for that very guard, it cannot drop it), and execute() is called
\* again as long as a response is buffered
LiveSpec ==
  /\ Init /\ [][LiveNext]_vars
  /\ \A t \in Threads : SF_vars(ThreadStep(t))
  /\ WF_vars(HandleGuardDropStep)
  /\ \A i \in Ids : WF_vars(FutureGuardDropStep(i))
  /\ SF_vars(PollerStep)

\* the client shared by two threads: any of them submits and calls
\* execute(), every send may fail, and the statements of an operation
\* interleave with those of the other thread wherever no lock forbids it
SharedInit == ClientInitOf(SharedThreads) /\ ServiceInit /\ HandleInit

SharedNext ==
  \/ \E t \in SharedThreads :
       async_send_request_with_callback_send(t) /\ UNCHANGED <<svars, hvars>>
  \/ \E t \in SharedThreads :
       async_send_request_with_callback_insert(t) /\ UNCHANGED <<svars, hvars>>
  \/ \E t \in SharedThreads :
       call_async_send(t) /\ UNCHANGED <<svars, hvars>>
  \/ \E t \in SharedThreads :
       call_async_insert(t) /\ UNCHANGED <<svars, hvars>>
  \/ \E t \in SharedThreads :
       call_async_swap(t) /\ UNCHANGED <<svars, hvars>>
  \/ \E t \in SharedThreads :
       call_async_return(t) /\ UNCHANGED <<svars, hvars>>
  \/ \E t \in SharedThreads, n \in 1..MaxResponses :
       take_response_ok(t, n) /\ UNCHANGED <<svars, hvars>>
  \/ \E t \in SharedThreads :
       execute_lock_requests(t) /\ UNCHANGED <<svars, hvars>>
  \/ \E t \in SharedThreads :
       execute_lookup(t) /\ UNCHANGED <<svars, hvars>>
  \/ \E t \in SharedThreads :
       execute_remove(t) /\ UNCHANGED <<svars, hvars>>
  \/ \E t \in SharedThreads :
       execute_set_future(t) /\ UNCHANGED <<svars, hvars>>
  \/ \E t \in SharedThreads :
       execute_callback(t) /\ UNCHANGED <<svars, hvars>>
  \/ \E s \in RespSeqNums :
       rmw_deliver(s) /\ UNCHANGED <<svars, hvars>>

SharedSpec == SharedInit /\ [][SharedNext]_vars

\* the process has no service: none has been constructed and no request has
\* reached a service endpoint
NoService == callback = NoHandler /\ reqs = <<>>

\* the process has not used a client: nothing was submitted, no response has
\* arrived, no call has returned, nobody holds the endpoint
NoClient ==
  next_id = 1 /\ resp = <<>> /\ ret = NoRet /\ handle_lock = NoThread

\* a process that works on one endpoint, as the examples do: on its client
\* (it has no service), or on its service (it has not used a client)
EndpointNext ==
  \/ \E t \in Threads :
       /\ NoService
       /\ async_send_request_with_callback_send(t) /\ UNCHANGED <<svars, hvars>>
  \/ \E t \in Threads :
       /\ NoService
       /\ async_send_request_with_callback_insert(t) /\ UNCHANGED <<svars, hvars>>
  \/ \E t \in Threads :
       /\ NoService
       /\ call_async_send(t) /\ UNCHANGED <<svars, hvars>>
  \/ \E t \in Threads :
       /\ NoService
       /\ call_async_insert(t) /\ UNCHANGED <<svars, hvars>>
  \/ \E t \in Threads :
       /\ NoService
       /\ call_async_swap(t) /\ UNCHANGED <<svars, hvars>>
  \/ \E t \in Threads :
       /\ NoService
       /\ call_async_return(t) /\ UNCHANGED <<svars, hvars>>
  \/ \E t \in Threads, n \in 1..MaxResponses :
       /\ NoService
       /\ take_response_ok(t, n) /\ UNCHANGED <<svars, hvars>>
  \/ \E t \in Threads, rc \in ClientTakeRcs :
       /\ NoService
       /\ take_response_err(t, rc) /\ UNCHANGED <<svars, hvars>>
  \/ \E t \in Threads, n \in 1..MaxResponses :
       /\ NoService
       /\ take_response_alone_ok(t, n) /\ UNCHANGED <<svars, hvars>>
  \/ \E t \in Threads, rc \in ClientTakeRcs :
       /\ NoService
       /\ take_response_alone_err(t, rc) /\ UNCHANGED <<svars, hvars>>
  \/ \E t \in Threads :
       /\ NoService
       /\ execute_lock_requests(t) /\ UNCHANGED <<svars, hvars>>
  \/ \E t \in Threads :
       /\ NoService
       /\ execute_dispatch(t) /\ UNCHANGED <<svars, hvars>>
  \/ \E t \in Threads :
       /\ NoService
       /\ execute_set_future(t) /\ UNCHANGED <<svars, hvars>>
  \/ \E t \in Threads :
       /\ NoService
       /\ execute_callback(t) /\ UNCHANGED <<svars, hvars>>
  \/ \E s \in RespSeqNums :
       /\ NoService
       /\ rmw_deliver(s) /\ UNCHANGED <<svars, hvars>>
  \/ \E h \in Handlers :
       /\ NoClient
       /\ service_new(h) /\ UNCHANGED <<cvars>>
  \/ /\ NoClient
     /\ service_guard_take /\ UNCHANGED <<cvars, hvars>>
  \/ /\ NoClient
     /\ service_guard_drop /\ UNCHANGED <<cvars, hvars>>
  \/ \E t \in Threads, op \in ServiceOps :
       /\ NoClient
       /\ service_call_with_handle_guard(t, op) /\ UNCHANGED <<cvars, hvars>>
  \/ \E t \in Threads, n \in 1..MaxRequests :
       /\ NoClient
       /\ take_request_ok(t, n) /\ UNCHANGED <<cvars, hvars>>
  \/ \E t \in Threads, rc \in ServiceTakeRcs :
       /\ NoClient
       /\ take_request_err(t, rc) /\ UNCHANGED <<cvars, hvars>>
  \/ \E t \in Threads, n \in 1..MaxRequests :
       /\ NoClient
       /\ take_request_alone_ok(t, n) /\ UNCHANGED <<cvars, hvars>>
  \/ \E t \in Threads, rc \in ServiceTakeRcs :
       /\ NoClient
       /\ take_request_alone_err(t, rc) /\ UNCHANGED <<cvars, hvars>>
  \/ \E t \in Threads :
       /\ NoClient
       /\ service_execute_call(t) /\ UNCHANGED <<cvars, hvars>>
  \/ \E t \in Threads :
       /\ NoClient
       /\ service_execute_handler(t) /\ UNCHANGED <<cvars, hvars>>
  \/ \E t \in Threads, rc \in SendRcs :
       /\ NoClient
       /\ service_execute_send(t, rc) /\ UNCHANGED <<cvars, hvars>>
  \/ \E c \in Clients, req \in Requests :
       /\ NoClient
       /\ rmw_request(c, req) /\ UNCHANGED <<cvars, hvars>>

EndpointSpec == Init /\ [][EndpointNext]_vars

\* construction and teardown of the endpoint handles
HandleNext ==
  \/ \E h \in Handlers : service_new(h) /\ UNCHANGED <<cvars>>
  \/ \E e \in Endpoints : handle_clone(e) /\ UNCHANGED <<cvars, svars>>
  \/ \E e \in Endpoints : handle_owner_drop(e) /\ UNCHANGED <<cvars, svars>>
  \/ \E e \in Endpoints :
       handle_drop_lock_node(e) /\ UNCHANGED <<cvars, svars>>
  \/ \E e \in Endpoints : handle_drop_fini(e) /\ UNCHANGED <<cvars, svars>>
  \/ \E e \in Endpoints : handle_drop_fields(e) /\ UNCHANGED <<cvars, svars>>
  \/ node_drop /\ UNCHANGED <<cvars, svars>>
  \/ node_handle_fini /\ UNCHANGED <<cvars, svars>>
  \/ node_app_lock /\ UNCHANGED <<cvars, svars>>
  \/ node_app_unlock /\ UNCHANGED <<cvars, svars>>

HandleSpec == Init /\ [][HandleNext]_vars

(* ------------------------------ claims --------------------------------- *)

Submitted(i) == sub[i].kind # "none"

\* the submission's call has returned
Returned(i) == sub[i].returned

\* responses whose execute has finished
Finished(n) ==
  n \in 1..Len(resp) /\ resp[n].st \in {"callback", "future", "dropped"}

\* responses an execute has taken from the transport
Taken(n) == n \in 1..Len(resp) /\ resp[n].st \notin {"buffered", "caller"}

\* C1: whatever the interleaving of the execute() calls of two threads, and
\* however many responses carry the same sequence number, the callback of a
\* submission is invoked at most once and the future of a submission is set
\* at most once; and the entry an execute() has found under the table guards
\* is the entry it removes (the remove never comes back empty-handed).
C1_AtMostOnce ==
  /\ \A i \in Ids : Len(cb_calls[i]) <= 1 /\ Len(fut_vals[i]) <= 1
  /\ \A t \in DOMAIN pc : pc[t] # "ex_unwrap_none"

\* two threads are inside execute() with two responses that carry the
\* sequence number of one entry: one has found and removed the entry and is
\* about to resolve it, the other has taken its response and waits for the
\* table
C1_Witness ==
  \E t, u \in DOMAIN pc, i \in Ids :
    /\ t # u
    /\ pc[t] \in {"ex_callback", "ex_set_future"}
    /\ i \in {loc[t].cb, loc[t].fut}
    /\ sub[i].rc = RclOk
    /\ pc[u] = "ex_lock_requests"
    /\ resp[loc[u].res].seq = resp[loc[t].res].seq
    /\ cb_calls[i] = <<>> /\ fut_vals[i] = <<>>

AllSendsSucceed == \A i \in Ids : Submitted(i) => sub[i].rc = RclOk

\* C2: when every send succeeded, a callback is only ever invoked with a
\* response tagged with the sequence number returned for its own request, at
\* most once, and exactly once as soon as an execute() has finished with a
\* response that answers its request -- in whatever order the responses come.
C2_NoCrossWiring ==
  AllSendsSucceed =>
    \A i \in Ids :
      sub[i].kind = "cb" =>
        /\ Len(cb_calls[i]) <= 1
        /\ \A k \in 1..Len(cb_calls[i]) :
             resp[cb_calls[i][k]].seq = sub[i].assigned
        /\ (\E n \in 1..Len(resp) :
              Finished(n) /\ resp[n].answer /\ resp[n].seq = sub[i].assigned)
           => Len(cb_calls[i]) = 1

\* two callbacks were submitted, their responses arrived in the opposite
\* order, and each callback got its own
C2_Witness ==
  /\ AllSendsSucceed
  /\ \E i, j \in Ids :
       /\ sub[i].kind = "cb" /\ sub[j].kind = "cb"
       /\ sub[i].assigned < sub[j].assigned
       /\ Len(cb_calls[i]) = 1 /\ Len(cb_calls[j]) = 1
       /\ cb_calls[i][1] > cb_calls[j][1]
       /\ resp[cb_calls[i][1]].answer /\ resp[cb_calls[j][1]].answer

\* C3: a submission whose send failed has returned the error and has left
\* nothing behind: neither table holds its callback or future, and its
\* callback was never invoked, its future never set.
C3_FailedSendRegistersNothing ==
  \A i \in Ids :
    (sub[i].rc = RclError /\ Returned(i)) =>
      /\ \A s \in SeqNums : requests[s] # i /\ futures[s] # i
      /\ cb_calls[i] = <<>>
      /\ fut_vals[i] = <<>>

Pending == {s \in SeqNums : ContainsKey(requests, s) \/ ContainsKey(futures, s)}

\* a step in which an execute() saw rcl_take_response report 'take failed'
TakeFailedStep ==
  ret' # ret /\ ret'.op = "execute" /\ ret'.rc = ClientTakeFailed

\* C4: an execute() whose take reports 'take failed' returns success, invokes
\* no callback, sets no future and leaves both tables (and the buffered
\* responses) as they were.
C4_TakeFailedIsNoOp ==
  [][TakeFailedStep =>
       /\ ret'.result = ResOk
       /\ UNCHANGED <<requests, futures, cb_calls, fut_vals, resp, pc>>]_vars

\* a spurious wakeup has been swallowed while entries were pending and a
\* response was buffered
C4_Witness ==
  /\ ret.op = "execute" /\ ret.rc = ClientTakeFailed
  /\ Pending # {}
  /\ \E n \in 1..Len(resp) : Buffered(n)

\* thread t dispatches a response whose sequence number is in neither table
DropStep(t) ==
  /\ pc[t] = "ex_lock_futures"
  /\ pc'[t] # pc[t]
  /\ ~ContainsKey(requests, resp[loc[t].res].seq)
  /\ ~ContainsKey(futures, resp[loc[t].res].seq)

\* every resolution so far used a response tagged with the key the entry was
\* stored under
ResolvedByOwnKey ==
  \A i \in Ids :
    /\ \A k \in 1..Len(cb_calls[i]) : resp[cb_calls[i][k]].seq = sub[i].seq
    /\ \A k \in 1..Len(fut_vals[i]) :
         \E n \in 1..Len(resp) :
           /\ resp[n].seq = sub[i].seq
           /\ resp[n].st = "future"
           /\ resp[n].val = fut_vals[i][k]

\* C5: an execute() that takes a response whose sequence number is in neither
\* table returns success, invokes no callback, sets no future and leaves both
\* tables as they were; entries are only ever resolved by responses carrying
\* their own key, also after such a drop.
C5_UnmatchedIsDropped ==
  /\ [][\A t \in Threads :
          DropStep(t) =>
            /\ pc'[t] = "idle"
            /\ ret' = [op |-> "execute", rc |-> RclOk, result |-> ResOk]
            /\ UNCHANGED <<requests, futures, cb_calls, fut_vals>>]_vars
  /\ []ResolvedByOwnKey

\* a response was dropped while the entry of an earlier-answered request was
\* pending, and that entry is still waiting for its own buffered response
C5_Witness ==
  \E n, m \in 1..Len(resp), i \in Ids :
    /\ resp[n].st = "dropped"
    /\ m < n
    /\ resp[m].st = "buffered" /\ resp[m].answer
    /\ resp[m].seq = sub[i].assigned
    /\ sub[i].rc = RclOk
    /\ requests[sub[i].seq] = i

\* C6: the future of a successful call_async with sequence number s is unset
\* as long as no execute() has taken a response tagged s, and once an
\* execute() has finished with a response that answers s the future holds the
\* value of such a response.
C6_FutureSetByOwnResponse ==
  \A i \in Ids :
    (sub[i].kind = "fut" /\ sub[i].rc = RclOk /\ Returned(i)) =>
      /\ (\A n \in 1..Len(resp) : Taken(n) => resp[n].seq # sub[i].assigned)
         => fut_vals[i] = <<>>
      /\ (\E n \in 1..Len(resp) :
            Finished(n) /\ resp[n].answer /\ resp[n].seq = sub[i].assigned)
         => /\ Len(fut_vals[i]) = 1
            /\ \E n \in 1..Len(resp) :
                 /\ Taken(n) /\ resp[n].seq = sub[i].assigned
                 /\ fut_vals[i][1] = resp[n].val

\* the same statement for the runs in which no send has failed
C6_WhenAllSendsSucceed == AllSendsSucceed => C6_FutureSetByOwnResponse

\* response n answers submission i: the transport buffered it after it had
\* assigned its sequence number to the request of i
Answers(n, i) ==
  sub[i].rc = RclOk /\ resp[n].answer /\ resp[n].seq = sub[i].assigned

C7_NothingResolvedBeforeReturn ==
  \A i \in Ids :
    ~Returned(i) => cb_calls[i] = <<>> /\ fut_vals[i] = <<>>

Events(t, ev) == {k \in 1..Len(slog[t]) : slog[t][k].ev = ev}

\* thread t is not inside Service::execute: its last execute() has returned
OutsideServiceExecute(t) == spc[t] \in {"idle", "tq_lock_handle"}

\* C8: in every Service execute() that took a request, the request id given
\* to rcl_send_response equals, guid bytes and sequence number, the one
\* take_request produced, and so does the one the handler was shown.
C8_RequestIdRoundTrip ==
  \A t \in Threads :
    \A k \in Events(t, "take") :
      /\ \A h \in Events(t, "handler") : slog[t][h].id = slog[t][k].id
      /\ \A e \in Events(t, "send") : slog[t][e].id = slog[t][k].id

\* an execute() has sent its response, and another request with a different
\* request id is around
C8_Witness ==
  \E t \in Threads, n \in 1..Len(reqs) :
    /\ Events(t, "send") # {}
    /\ \A e \in Events(t, "send") :
         slog[t][e].id # ZeroRequestId /\ reqs[n].id # slog[t][e].id

\* the events of one finished execute() call that took request n
FullCall(log, n) ==
  /\ Len(log) = 4
  /\ log[1].ev = "take" /\ log[1].n = n
  /\ log[2].ev = "handler"
  /\ log[3].ev = "send"
  /\ log[3].res = Handler(callback, reqs[n].id, reqs[n].req, DefaultResponse)
  /\ log[4].ev = "return" /\ log[4].result = ToResult(log[3].rc)

\* C9: an execute() call takes at most one request; having taken one it calls
\* the handler once and then attempts one send, in that order, of the
\* response the handler left from the default; a request is handled and
\* answered by one call only; on 'take failed' the call returns success
\* having called no handler and sent nothing.
C9_OneTakeOneHandlerOneSend ==
  /\ \A t \in Threads :
       LET log == slog[t]
       IN \/ log = <<>>
          \/ /\ log[1].ev = "take"
             /\ spc[t] = "sv_call" => Len(log) = 1
             /\ spc[t] \in {"sv_handler", "sv_send"} =>
                  Len(log) = 2 /\ log[2].ev = "handler"
             /\ OutsideServiceExecute(t) => FullCall(log, log[1].n)
          \/ /\ log[1].ev = "take_err"
             /\ OutsideServiceExecute(t)
             /\ Len(log) = 2
             /\ log[2].ev = "return"
             /\ log[1].rc = ServiceTakeFailed => log[2].result = ResOk
  /\ \A n \in 1..Len(reqs) :
       /\ reqs[n].handled <= 1 /\ reqs[n].sends <= reqs[n].handled
       /\ reqs[n].st = "done" => reqs[n].handled = 1 /\ reqs[n].sends = 1

\* a call has answered {a=41, b=1} with {sum=42} after an earlier call had
\* handled and answered another request
C9_Witness ==
  \E t \in Threads, m \in 1..Len(reqs) :
    /\ spc[t] = "idle" /\ Len(slog[t]) = 4
    /\ reqs[slog[t][1].n].req = [a |-> 41, b |-> 1]
    /\ slog[t][3].res = [sum |-> 42]
    /\ m # slog[t][1].n /\ reqs[m].st = "done"

\* C10: while a pending callback runs inside Client::execute the executing
\* thread holds neither the endpoint lock nor a table lock, and while the
\* handler runs inside Service::execute it does not hold the service's
\* endpoint lock.
C10_NoLockHeldInCallback ==
  /\ \A t \in Threads :
       pc[t] = "ex_callback" =>
         handle_lock # t /\ requests_lock # t /\ futures_lock # t
  /\ \A t \in Threads : spc[t] = "sv_handler" => service_lock # t

\* what the code does keep: neither endpoint lock is held while a callback
\* or the handler runs
C10_EndpointLocksFree ==
  /\ \A t \in Threads : pc[t] = "ex_callback" => handle_lock # t
  /\ \A t \in Threads : spc[t] = "sv_handler" => service_lock # t

\* C11: no sequence number is a key of the callback table and of the future
\* table at once, whatever submissions (successful or failed) and execute()
\* calls have happened.
C11_OneEntryPerSequenceNumber ==
  \A s \in SeqNums : ~(ContainsKey(requests, s) /\ ContainsKey(futures, s))

\* the same statement for the runs in which no send has failed
C11_WhenAllSendsSucceed == AllSendsSucceed => C11_OneEntryPerSequenceNumber

\* a step in which endpoint e is finalized with the transport
FiniStep(e) == fini'[e] # fini[e]

\* C12: however many owners an endpoint handle has, rcl_client_fini /
\* rcl_service_fini is called once: not while an owner is left, and once the
\* last owner is gone and its drop has finished, exactly once.  When it is
\* called the node handle has not been finalized (the endpoint holds a
\* reference to it) and the finalizing drop holds the node's lock.
C12_FinalizeOnceUnderNodeLock ==
  /\ [](\A e \in Endpoints :
          /\ fini[e] <= 1
          /\ hpc[e] \in {"fields", "gone"} <=> fini[e] = 1
          /\ owners[e] > 0 => fini[e] = 0)
  /\ [][\A e \in Endpoints :
          FiniStep(e) =>
            /\ fini[e] = 0 /\ fini'[e] = 1
            /\ owners[e] = 0
            /\ node_fini = 0 /\ node_refs >= 1
            /\ node_lock = e]_vars

\* both endpoints were finalized, the application had dropped its Node
\* before, and the node was finalized last
C12_Witness ==
  /\ \A e \in Endpoints : fini[e] = 1
  /\ ~node_owned
  /\ node_fini = 1

\* thread t takes a step of a submission whose send failed, on its way to
\* the return
FailedSubmissionReturns(t) ==
  /\ pc[t] \in {"cb_insert", "fa_insert", "fa_swap", "fa_return"}
  /\ pc'[t] # pc[t]
  /\ loc[t].rc = RclError

\* C13: the return of a submission whose send failed leaves every entry that
\* was pending before it in place: each pending sequence number still maps
\* to the callback or future it mapped to.
C13_FailedSendKeepsEarlierEntries ==
  [][\A t \in Threads :
       FailedSubmissionReturns(t) =>
         \A s \in SeqNums :
           /\ ContainsKey(requests, s) => requests'[s] = requests[s]
           /\ ContainsKey(futures, s) => futures'[s] = futures[s]]_vars

\* the same statement for submissions whose send succeeded
C13_SuccessfulSendKeepsEarlierEntries ==
  [][\A t \in Threads :
       (pc[t] \in {"cb_insert", "fa_insert", "fa_swap", "fa_return"}
          /\ pc'[t] # pc[t] /\ loc[t].rc = RclOk) =>
         \A s \in SeqNums :
           /\ ContainsKey(requests, s) => requests'[s] = requests[s]
           /\ ContainsKey(futures, s) => futures'[s] = futures[s]]_vars

\* thread t is inside execute(), past its take
InExecute(t) ==
  pc[t] \in {"ex_lock_requests", "ex_lock_futures", "ex_callback",
            "ex_set_future"}

BufferedSet == {n \in 1..Len(resp) : Buffered(n)}

\* the keys a step removes from the two tables
RemovedKeys(map) ==
  {s \in SeqNums : ContainsKey(map, s) /\ ~ContainsKey(map', s)}

\* C14: an execute() call takes at most one response: no step takes more than
\* one buffered response, a thread inside execute() holds exactly one taken
\* response, different calls hold different ones and every taken response is
\* held by one call until that call returns (so k responses need k calls).
\* A step removes at most one entry from the two tables together, and a step
\* of an execute() leaves every entry under another sequence number than
\* that of its response as it was.
C14_OneResponsePerExecute ==
  /\ [](/\ \A t \in Threads :
            InExecute(t) <=>
              loc[t].res \in 1..Len(resp) /\ resp[loc[t].res].st = "taken"
        /\ \A t, u \in Threads :
             (t # u /\ InExecute(t) /\ InExecute(u)) => loc[t].res # loc[u].res
        /\ \A n \in 1..Len(resp) :
             resp[n].st = "taken" =>
               \E t \in Threads : InExecute(t) /\ loc[t].res = n)
  /\ [][/\ Cardinality(BufferedSet \ BufferedSet') <= 1
        /\ Cardinality(RemovedKeys(requests))
             + Cardinality(RemovedKeys(futures)) <= 1
        /\ \A t \in Threads :
             (InExecute(t) /\ pc'[t] # pc[t]) =>
               \A s \in SeqNums \ {resp[loc[t].res].seq} :
                 requests'[s] = requests[s] /\ futures'[s] = futures[s]]_vars

\* an execute() has resolved an entry while an entry under another sequence
\* number was pending and a second response was still buffered
C14_Witness ==
  \E n, m \in 1..Len(resp) :
    /\ resp[n].st \in {"callback", "future"}
    /\ Buffered(m)
    /\ \E s \in Pending : s # resp[n].seq

\* the transport has buffered a response that answers submission i, for
\* execute() to take
Answered(i) ==
  \E n \in 1..Len(resp) :
    resp[n].answer /\ resp[n].seq = sub[i].assigned /\ resp[n].st # "caller"

\* the callback of submission i has been invoked, or its future set
Resolved(i) ==
  IF sub[i].kind = "cb" THEN Len(cb_calls[i]) = 1 ELSE Len(fut_vals[i]) = 1

AllAnswered == \A i \in Ids : Submitted(i) => Answered(i)

\* every request the transport has answered so far is resolved
AnsweredAreResolved ==
  \A i \in Ids : (sub[i].rc = RclOk /\ Answered(i)) => Resolved(i)

\* execute() is about to set a future whose mutex its caller holds
FutureHeldInExecute ==
  \E t \in Threads :
    pc[t] = "ex_set_future" /\ future_lock[loc[t].fut] = App

\* an operation was called by a caller that holds the endpoint guard
HandleHeldInCall ==
  \E t \in Threads : pc[t] # "idle" /\ handle_lock = App

\* a thread inside an operation waits for a guard its own caller holds
GuardHeldInCall == FutureHeldInExecute \/ HandleHeldInCall

\* C15 as stated: under a fair scheduler and poller, when no send fails, the
\* run comes again and again to a state in which every request the transport
\* has buffered a response for has had its callback invoked or its future
\* set, and in which both tables are empty if every submitted request has
\* been answered.
C15_FairPollerResolvesAll ==
  []<>(AllSendsSucceed =>
         /\ AnsweredAreResolved
         /\ AllAnswered => Pending = {})

\* C15, amended: the same, for the runs in which no thread is inside an
\* operation waiting for a guard its own caller holds.  (Answers and
\* resolutions are never undone, so each answered request is resolved
\* eventually.)
C15_ResolvesAllUnlessGuardHeld ==
  []<>((AllSendsSucceed /\ ~GuardHeldInCall) =>
         /\ AnsweredAreResolved
         /\ AllAnswered => Pending = {})

\* a callback and a future were submitted, both were answered and resolved,
\* and the tables are empty
C15_Witness ==
  /\ AllSendsSucceed
  /\ \E i, j \in Ids :
       /\ sub[i].kind = "cb" /\ sub[j].kind = "fut"
       /\ Answered(i) /\ Answered(j)
       /\ Resolved(i) /\ Resolved(j)
  /\ Pending = {}

\* thread t, holding both table locks, looks up the sequence number of the
\* response it took
LookupStep(t) == pc[t] = "ex_lock_futures" /\ pc'[t] # pc[t]

\* thread t invokes the callback it found
CallbackStep(t) == pc[t] = "ex_callback" /\ pc'[t] # pc[t]

\* thread t sets the future it found
SetFutureStep(t) == pc[t] = "ex_set_future" /\ pc'[t] # pc[t]

\* C16: an execute() that took a response tagged s looks into the callback
\* table first.  With a callback under s, that entry is removed and the
\* callback invoked with the response, and the future table and every future
\* are left as they were, a future under s included.  Only with no callback
\* under s is a future under s removed and set to the response, and then no
\* callback is invoked.
C16_CallbackFirst ==
  [][\A t \in Threads :
       LET n == loc[t].res
           s == resp[n].seq
       IN /\ (LookupStep(t) /\ ContainsKey(requests, s)) =>
               /\ requests' = Remove(requests, s)
               /\ pc'[t] = "ex_callback" /\ loc'[t].cb = requests[s]
               /\ UNCHANGED <<futures, fut_vals>>
          /\ CallbackStep(t) =>
               /\ cb_calls' = [cb_calls EXCEPT ![loc[t].cb] = Append(@, n)]
               /\ pc'[t] = "idle"
               /\ UNCHANGED <<requests, futures, fut_vals>>
          /\ (LookupStep(t) /\ ~ContainsKey(requests, s)
                /\ ContainsKey(futures, s)) =>
               /\ futures' = Remove(futures, s)
               /\ pc'[t] = "ex_set_future" /\ loc'[t].fut = futures[s]
               /\ UNCHANGED <<requests, cb_calls, fut_vals>>
          /\ SetFutureStep(t) =>
               /\ fut_vals' = [fut_vals EXCEPT ![loc[t].fut] =
                                 Append(@, resp[n].val)]
               /\ pc'[t] = "idle"
               /\ UNCHANGED <<requests, futures, cb_calls>>]_vars

\* a callback has been invoked with a response whose sequence number is
\* still a key of the future table, and that future is unset
C16_Witness ==
  \E i, j \in Ids :
    /\ Len(cb_calls[i]) = 1
    /\ futures[resp[cb_calls[i][1]].seq] = j
    /\ sub[j].inserted
    /\ fut_vals[j] = <<>>
    /\ \A t \in Threads : pc[t] = "idle"

\* a step in which a Client::execute returns because rcl_take_response failed
\* with an error that is not 'take failed' (the thread never leaves "idle")
ClientTakeErrorStep ==
  /\ pc' = pc
  /\ ret' # ret
  /\ ret'.op = "execute"
  /\ ret'.rc \notin {RclOk, ClientTakeFailed}

\* a step in which thread t's Service::execute returns because
\* rcl_take_request failed with an error that is not 'take failed'
ServiceTakeErrorStep(t) ==
  /\ slog'[t] # slog[t]
  /\ slog'[t] # <<>>
  /\ slog'[t][1].ev = "take_err"
  /\ slog'[t][1].rc \notin {RclOk, ServiceTakeFailed}

\* C17: when the take fails with an error other than 'take failed',
\* Client::execute returns Err of that error, with both tables, the buffered
\* responses, every callback and every future as they were; and
\* Service::execute returns Err of that error having called no handler and
\* sent nothing.
C17_TakeErrorPropagates ==
  [][/\ ClientTakeErrorStep =>
          /\ Err(ret'.rc) = ret'.result
          /\ UNCHANGED <<requests, futures, cb_calls, fut_vals, resp>>
     /\ \A t \in Threads :
          ServiceTakeErrorStep(t) =>
            /\ Len(slog'[t]) = 2
            /\ slog'[t][2].ev = "return"
            /\ Err(slog'[t][1].rc) = slog'[t][2].result
            /\ Err(slog'[t][1].rc) = sret'
            /\ spc'[t] = "idle"
            /\ UNCHANGED reqs]_vars

\* a Client::execute has returned an error from its take while an entry was
\* pending and a response was buffered (no submission had failed)
C17_Witness ==
  /\ ret.op = "execute" /\ ret.rc = RclError /\ Err(RclError) = ret.result
  /\ AllSendsSucceed
  /\ Pending # {}
  /\ \E n \in 1..Len(resp) : Buffered(n)

\* a Service::execute has returned an error from its take while a request
\* was buffered
C17_ServiceWitness ==
  \E t \in Threads :
    /\ slog[t] # <<>>
    /\ slog[t][1] = [ev |-> "take_err", rc |-> RclError]
    /\ Err(RclError) = sret
    /\ \E n \in 1..Len(reqs) : reqs[n].st = "buffered"

\* the current or last execute() of thread t made a send that failed
SendFailed(t) ==
  \E e \in Events(t, "send") : slog[t][e].rc = RclError

\* C18: a Service::execute whose rcl_send_response failed has taken one
\* request, called the handler once, before the send, attempted that one send
\* and returned Err of the send's error; and the request of a finished call
\* has been handled once and sent once, whatever calls came later.
C18_SendFailureNoRetry ==
  /\ \A t \in Threads :
       SendFailed(t) =>
         /\ OutsideServiceExecute(t)
         /\ Len(slog[t]) = 4
         /\ Events(t, "take") = {1}
         /\ Events(t, "handler") = {2}
         /\ Events(t, "send") = {3}
         /\ slog[t][4].ev = "return"
         /\ Err(slog[t][3].rc) = slog[t][4].result
         /\ reqs[slog[t][1].n].handled = 1
         /\ reqs[slog[t][1].n].sends = 1
         /\ reqs[slog[t][1].n].st = "done"
  /\ \A n \in 1..Len(reqs) :
       reqs[n].st = "done" => reqs[n].handled = 1 /\ reqs[n].sends = 1

\* the send of a call failed, after an earlier call had taken, handled and
\* answered another request
C18_Witness ==
  \E t \in Threads, m \in 1..Len(reqs) :
    /\ SendFailed(t)
    /\ m # slog[t][1].n /\ reqs[m].st = "done"

\* a step that removes or replaces the entry under key s in one of the tables
EntryChanged(s) ==
  \/ ContainsKey(requests, s) /\ requests'[s] # requests[s]
  \/ ContainsKey(futures, s) /\ futures'[s] # futures[s]

\* C19: the entry pending under a sequence number s changes only in the
\* lookup of an execute() whose response is tagged s: no submission, no
\* failed take and no execute() for another sequence number removes or
\* replaces it, so without a response tagged s it stays for ever.
C19_EntryRemovedOnlyByOwnResponse ==
  [][\A s \in SeqNums :
       EntryChanged(s) =>
         \E t \in Threads : LookupStep(t) /\ resp[loc[t].res].seq = s]_vars

\* the same statement for the steps taken while no send has failed
C19_WhenAllSendsSucceed ==
  [][AllSendsSucceed' =>
       \A s \in SeqNums :
         EntryChanged(s) =>
           \E t \in Threads : LookupStep(t) /\ resp[loc[t].res].seq = s]_vars

Locks == {"handle", "requests", "futures"}

\* the order the client's locks are to be taken in
LockRank(l) ==
  CASE l = "handle" -> 1 [] l = "requests" -> 2 [] l = "futures" -> 3

Holder(l) ==
  CASE l = "handle" -> handle_lock
    [] l = "requests" -> requests_lock
    [] l = "futures" -> futures_lock

Held(t) == {l \in Locks : Holder(l) = t}

\* the lock of the client the next step of thread t acquires; a thread that
\* is in no operation acquires the endpoint lock first, whatever it calls
WaitsFor(t) ==
  CASE pc[t] \in {"idle", "cb_lock_handle", "fa_lock_handle", "ex_lock_handle",
                  "tr_lock_handle"} -> {"handle"}
    [] pc[t] \in {"cb_insert", "ex_lock_requests"} -> {"requests"}
    [] pc[t] \in {"fa_insert", "ex_lock_futures"} -> {"futures"}
    [] OTHER -> {}

\* every lock a thread holds comes before the lock it is about to take
LockOrder ==
  \A t \in Threads :
    \A w \in WaitsFor(t) : \A h \in Held(t) : LockRank(h) < LockRank(w)

\* a thread inside an operation can take its next step
NoStuckThread ==
  \A t \in Threads : pc[t] # "idle" => ENABLED ThreadStep(t)

\* C20 as stated: running async_send_request_with_callback, call_async and
\* execute() on one client (callbacks not calling into the client), a thread
\* only ever takes a lock that comes after all the locks it holds in the
\* order endpoint lock, callback-table lock, future-table lock; no thread
\* inside an operation is stuck for good; and under a fair scheduler every
\* thread gets out of every operation it is in.
C20_NoDeadlock ==
  /\ [](LockOrder /\ NoStuckThread)
  /\ \A t \in Threads : []<>(pc[t] = "idle")

\* C20, amended: the same, for the runs in which no thread is inside an
\* operation waiting for a guard its own caller holds.
C20_NoDeadlockUnlessGuardHeld ==
  /\ [](LockOrder /\ (GuardHeldInCall \/ NoStuckThread))
  /\ \A t \in Threads : []<>(GuardHeldInCall \/ pc[t] = "idle")

\* an execute() holds both table locks and is about to lock the future it
\* found; the application holds no guard, and has another future pending
C20_Witness ==
  \E t \in Threads, i \in Ids :
    /\ pc[t] = "ex_set_future"
    /\ requests_lock = t /\ futures_lock = t
    /\ \A j \in Ids : future_lock[j] = NoThread
    /\ i # loc[t].fut /\ HasFuture(i) /\ fut_vals[i] = <<>>

\* the order of the three locks of the client, in every run
C20_LockOrderAlways == LockOrder

====
